---- MODULE Spec2Model ----
(***************************************************************************)
(* Model of scripts/analyze_mutations.py: the mutation-testing quality     *)
(* gate.  One run of main() is a sequential pipeline                       *)
(*   argv check -> exists check -> load -> calculate_mutation_score ->     *)
(*   calculate_per_crate_scores -> analyze_surviving_mutants ->            *)
(*   print_report -> exit decision.                                        *)
(* Strings that the code takes apart (file paths, crate names) are         *)
(* sequences of one-character strings, so that the substring test and the  *)
(* two split() calls are modelled by what they do.                         *)
(* A score is the exact rational caught*100/total, kept as num/den; for    *)
(* totals up to 1500 the IEEE double (caught/total)*100.0 compares with    *)
(* 80.0, 85.0 and 90.0 exactly as the rational does.                       *)
(***************************************************************************)
EXTENDS Integers, Sequences, FiniteSets, TLC

(* ------------------------------ bounds --------------------------------- *)
\* longest outcomes list over the full record alphabet
MaxLen == 3
\* longest outcomes list over the three-record alphabet that reaches ties
MaxTie == 7

(* ------------------------------ strings -------------------------------- *)
K_decy_ownership == <<"d", "e", "c", "y", "-", "o", "w", "n", "e", "r", "s", "h", "i", "p">>
K_decy_lifetime == <<"d", "e", "c", "y", "-", "l", "i", "f", "e", "t", "i", "m", "e">>
K_decy_verify == <<"d", "e", "c", "y", "-", "v", "e", "r", "i", "f", "y">>
K_decy_parser == <<"d", "e", "c", "y", "-", "p", "a", "r", "s", "e", "r">>
K_decy_codegen == <<"d", "e", "c", "y", "-", "c", "o", "d", "e", "g", "e", "n">>
K_decy_analyzer == <<"d", "e", "c", "y", "-", "a", "n", "a", "l", "y", "z", "e", "r">>
K_decy_hir == <<"d", "e", "c", "y", "-", "h", "i", "r">>
K_decy_core == <<"d", "e", "c", "y", "-", "c", "o", "r", "e">>
S_unknown == <<"u", "n", "k", "n", "o", "w", "n">>
S_marker == <<"c", "r", "a", "t", "e", "s", "/">>
S_crates == <<"c", "r", "a", "t", "e", "s">>
S_slash == <<"/">>
S_empty == <<>>

PathParser == <<"c", "r", "a", "t", "e", "s", "/", "d", "e", "c", "y", "-", "p", "a", "r", "s", "e", "r", "/", "a", ".", "r", "s">>
PathFoo == <<"c", "r", "a", "t", "e", "s", "/", "f", "o", "o", "/", "c", ".", "r", "s">>
PathNoMarker == <<"s", "r", "c", "/", "m", "a", "i", "n", ".", "r", "s">>
PathSubstring == <<"x", "c", "r", "a", "t", "e", "s", "/", "b", "a", "r", "/", "d", ".", "r", "s">>
PathNested == <<"v", "/", "c", "r", "a", "t", "e", "s", "/", "d", "e", "c", "y", "-", "h", "i", "r", "/", "c", "r", "a", "t", "e", "s", "/", "z">>

\* code point of a character (Python compares str by code point)
Ord(c) ==
    CASE c = "-" -> 45 [] c = "." -> 46 [] c = "/" -> 47 [] c = "a" -> 97
      [] c = "b" -> 98 [] c = "c" -> 99 [] c = "d" -> 100 [] c = "e" -> 101
      [] c = "f" -> 102 [] c = "g" -> 103 [] c = "h" -> 104 [] c = "i" -> 105
      [] c = "k" -> 107 [] c = "l" -> 108 [] c = "m" -> 109 [] c = "n" -> 110
      [] c = "o" -> 111 [] c = "p" -> 112 [] c = "r" -> 114 [] c = "s" -> 115
      [] c = "t" -> 116 [] c = "u" -> 117 [] c = "v" -> 118 [] c = "w" -> 119
      [] c = "x" -> 120 [] c = "y" -> 121 [] c = "z" -> 122

\* s[i..] starts with sub
MatchAt(s, sub, i) ==
    /\ i + Len(sub) - 1 <= Len(s)
    /\ SubSeq(s, i, i + Len(sub) - 1) = sub

\* Python: sub in s
Contains(s, sub) == \E i \in 1..(Len(s) + 1) : MatchAt(s, sub, i)

\* Python: s.find(sub) + 1 when sub occurs in s
Find(s, sub) ==
    CHOOSE i \in 1..(Len(s) + 1) :
        /\ MatchAt(s, sub, i)
        /\ \A j \in 1..(i - 1) : ~MatchAt(s, sub, j)

\* Python: s.split(sep), sep non-empty
RECURSIVE Split(_, _)
Split(s, sep) ==
    IF ~Contains(s, sep) THEN <<s>>
    ELSE LET i == Find(s, sep)
         IN  <<SubSeq(s, 1, i - 1)>> \o Split(SubSeq(s, i + Len(sep), Len(s)), sep)

\* Python: a < b on str
RECURSIVE StrLt(_, _)
StrLt(a, b) ==
    IF b = <<>> THEN FALSE
    ELSE IF a = <<>> THEN TRUE
    ELSE IF Ord(Head(a)) # Ord(Head(b)) THEN Ord(Head(a)) < Ord(Head(b))
    ELSE StrLt(Tail(a), Tail(b))

\* Python: sorted(S) for a collection of distinct str
RECURSIVE Sorted(_)
Sorted(S) ==
    IF S = {} THEN <<>>
    ELSE LET m == CHOOSE x \in S : \A y \in S \ {x} : StrLt(x, y)
         IN  <<m>> \o Sorted(S \ {m})

Range(q) == {q[i] : i \in DOMAIN q}

(* -------------------------- configuration ------------------------------ *)
THRESHOLDS ==
    (K_decy_ownership :> 90) @@ (K_decy_lifetime :> 90) @@
    (K_decy_verify :> 85) @@ (K_decy_parser :> 80) @@
    (K_decy_codegen :> 85) @@ (K_decy_analyzer :> 80) @@
    (K_decy_hir :> 80) @@ (K_decy_core :> 85)

OVERALL_THRESHOLD == 85

(* ----------------------------- JSON input ------------------------------ *)
(* A JSON object is a record with a field "keys": the set of keys that are *)
(* present.  A value whose JSON type is not the one the code expects has   *)
(* another "kind".                                                         *)
File(p) == [kind |-> "str", path |-> p]
FileNum == [kind |-> "num", path |-> S_empty]

Scenario(keys, file, function, line) ==
    [kind |-> "object", keys |-> keys, file |-> file,
     function |-> function, line |-> line]
ScenarioAt(p) == Scenario({"file", "function", "line"}, File(p), "f", 7)
ScenarioEmpty == Scenario({}, File(S_empty), "", 0)
ScenarioNull == [ScenarioEmpty EXCEPT !.kind = "null"]

Outcome(keys, scenario, summary) ==
    [kind |-> "object", keys |-> keys, scenario |-> scenario, summary |-> summary]
Mutant(p, summary) == Outcome({"scenario", "summary"}, ScenarioAt(p), summary)

Paths == {PathParser, PathFoo, PathNoMarker, PathSubstring}

WellTypedOutcomes ==
    {Mutant(p, s) : p \in Paths, s \in {"caught", "missed"}}
    \cup {Mutant(PathParser, "timeout"), Mutant(PathFoo, "unviable"),
          Mutant(PathNested, "caught"),
          Outcome({"scenario"}, ScenarioAt(PathNoMarker), ""),
          Outcome({"summary"}, ScenarioEmpty, "missed"),
          Outcome({"scenario", "summary"}, ScenarioEmpty, "timeout")}

IllTypedOutcomes ==
    {Outcome({"scenario", "summary"}, ScenarioNull, "caught"),
     Outcome({"scenario", "summary"},
             Scenario({"file"}, FileNum, "", 0), "missed"),
     [Outcome({}, ScenarioEmpty, "") EXCEPT !.kind = "string"]}

Outcomes == WellTypedOutcomes \cup IllTypedOutcomes

TieOutcomes ==
    {Mutant(PathParser, "caught"), Mutant(PathParser, "missed"),
     Mutant(PathFoo, "caught")}

SeqsUpTo(S, n) == UNION {[1..k -> S] : k \in 0..n}

Doc(outcomes) ==
    [kind |-> "object", keys |-> {"outcomes"}, outcomes_kind |-> "list",
     outcomes |-> outcomes]
DocNoOutcomes == [Doc(<<>>) EXCEPT !.keys = {}]
DocNullOutcomes == [Doc(<<>>) EXCEPT !.outcomes_kind = "null"]
DocArray == [Doc(<<>>) EXCEPT !.kind = "array", !.keys = {}]

Docs ==
    {Doc(q) : q \in SeqsUpTo(Outcomes, MaxLen) \cup SeqsUpTo(TieOutcomes, MaxTie)}
    \cup {DocNoOutcomes, DocNullOutcomes, DocArray}

\* what the path named on the command line holds
Files ==
    {[state |-> "missing", doc |-> Doc(<<>>)],
     [state |-> "malformed", doc |-> Doc(<<>>)]}
    \cup {[state |-> "json", doc |-> d] : d \in Docs}

(* --------------------------- dict accessors ---------------------------- *)
\* data.get('outcomes', [])
OutcomesOf(data) == IF "outcomes" \in data.keys THEN data.outcomes ELSE <<>>

\* outcome.get('summary', default); get('summary') is get('summary', None)
SummaryGet(outcome, default) ==
    IF "summary" \in outcome.keys THEN outcome.summary ELSE default

\* outcome.get('scenario', {})
ScenarioGet(outcome) ==
    IF "scenario" \in outcome.keys THEN outcome.scenario ELSE ScenarioEmpty

\* scenario.get('file', default)
FileGet(scenario, default) ==
    IF "file" \in scenario.keys THEN scenario.file ELSE File(default)

\* scenario.get('function', 'unknown')
FunctionGet(scenario) ==
    IF "function" \in scenario.keys THEN scenario.function ELSE "unknown"

\* scenario.get('line', 0)
LineGet(scenario) == IF "line" \in scenario.keys THEN scenario.line ELSE 0

\* variant of IsDetected: a timeout is not taken as a detection
IsDetected_caught_only(outcome) == SummaryGet(outcome, "None") \in {"caught"}

\* outcome.get('summary') in ['caught', 'timeout']
IsDetected(outcome) == SummaryGet(outcome, "None") \in {"caught", "timeout"}

\* `for outcome in data.get('outcomes', [])` raises: data is not a dict, or
\* the value under 'outcomes' is not iterable
IterRaises(data) ==
    \/ data.kind # "object"
    \/ "outcomes" \in data.keys /\ data.outcomes_kind # "list"

(* ------------------------------- scores -------------------------------- *)
\* variant of Percent: the fraction is not scaled to a percentage
Percent_fraction(caught_count, total_count) == [num |-> caught_count, den |-> total_count]

\* (caught / total) * 100.0, total > 0
Percent(caught_count, total_count) == [num |-> caught_count * 100, den |-> total_count]
\* 0.0
ZeroScore == [num |-> 0, den |-> 1]

\* score >= threshold
ScoreGe(score, threshold) == score.num >= threshold * score.den
\* score < threshold
ScoreLt(score, threshold) == score.num < threshold * score.den

(* ----------------------- calculate_mutation_score ---------------------- *)
RECURSIVE ScoreLoop(_, _, _, _)
ScoreLoop(outcomes, i, total_acc, caught_acc) ==
    IF i > Len(outcomes) THEN [total |-> total_acc, caught |-> caught_acc]
    ELSE ScoreLoop(outcomes, i + 1, total_acc + 1,
                   IF IsDetected(outcomes[i]) THEN caught_acc + 1 ELSE caught_acc)

\* variant of calculate_mutation_score_raises: without the guard of line 59
\* the division of line 62 raises ZeroDivisionError on an empty list
calculate_mutation_score_raises_unguarded(data) ==
    \/ IterRaises(data)
    \/ \E i \in DOMAIN OutcomesOf(data) : OutcomesOf(data)[i].kind # "object"
    \/ Len(OutcomesOf(data)) = 0

calculate_mutation_score_raises(data) ==
    \/ IterRaises(data)
    \/ \E i \in DOMAIN OutcomesOf(data) : OutcomesOf(data)[i].kind # "object"

calculate_mutation_score(data) ==
    LET r == ScoreLoop(OutcomesOf(data), 1, 0, 0)
    IN  IF r.total = 0
        THEN [score |-> ZeroScore, caught |-> 0, total |-> 0]
        ELSE [score |-> Percent(r.caught, r.total), caught |-> r.caught,
              total |-> r.total]

(* ---------------------- calculate_per_crate_scores --------------------- *)
\* lines 73-77: the crate name of a file path
CrateName(file_path) ==
    IF Contains(file_path, S_marker)
    THEN LET parts == Split(Split(file_path, S_marker)[2], S_slash)
         IN  IF parts # <<>> THEN parts[1] ELSE S_unknown
    ELSE S_unknown

\* line 72 and the test of line 73 raise: scenario is not a dict, or the
\* file is not a str
CrateOfRaises(outcome) ==
    \/ outcome.kind # "object"
    \/ ScenarioGet(outcome).kind # "object"
    \/ FileGet(ScenarioGet(outcome), S_empty).kind # "str"

\* lines 72-77
CrateOf(outcome) == CrateName(FileGet(ScenarioGet(outcome), S_empty).path)

\* variant of CrateStatsStep: a record whose path has no marker is skipped
CrateStatsStep_skip_unknown(crate_stats, outcome) ==
    LET crate_name == CrateOf(outcome)
        old == IF crate_name \in DOMAIN crate_stats
               THEN crate_stats[crate_name]
               ELSE [total |-> 0, caught |-> 0]
        new == [total |-> old.total + 1,
                caught |-> IF IsDetected(outcome) THEN old.caught + 1
                           ELSE old.caught]
    IN  IF crate_name = S_unknown THEN crate_stats
        ELSE [c \in DOMAIN crate_stats \cup {crate_name} |->
                 IF c = crate_name THEN new ELSE crate_stats[c]]

\* lines 79-84: one iteration's update of crate_stats
CrateStatsStep(crate_stats, outcome) ==
    LET crate_name == CrateOf(outcome)
        old == IF crate_name \in DOMAIN crate_stats
               THEN crate_stats[crate_name]
               ELSE [total |-> 0, caught |-> 0]
        new == [total |-> old.total + 1,
                caught |-> IF IsDetected(outcome) THEN old.caught + 1
                           ELSE old.caught]
    IN  [c \in DOMAIN crate_stats \cup {crate_name} |->
            IF c = crate_name THEN new ELSE crate_stats[c]]

RECURSIVE CrateLoop(_, _, _)
CrateLoop(outcomes, i, crate_stats) ==
    IF i > Len(outcomes) THEN crate_stats
    ELSE CrateLoop(outcomes, i + 1, CrateStatsStep(crate_stats, outcomes[i]))

calculate_per_crate_scores_raises(data) ==
    \/ IterRaises(data)
    \/ \E i \in DOMAIN OutcomesOf(data) : CrateOfRaises(OutcomesOf(data)[i])

calculate_per_crate_scores(data) ==
    LET crate_stats == CrateLoop(OutcomesOf(data), 1, <<>>)
    IN  [crate \in DOMAIN crate_stats |->
            IF crate_stats[crate].total > 0
            THEN [score |-> Percent(crate_stats[crate].caught, crate_stats[crate].total),
                  caught |-> crate_stats[crate].caught,
                  total |-> crate_stats[crate].total]
            ELSE [score |-> ZeroScore, caught |-> 0, total |-> 0]]

(* ----------------------- analyze_surviving_mutants --------------------- *)
\* lines 104-109: the entry appended for a surviving outcome
SurvivingEntry(outcome) ==
    [file |-> FileGet(ScenarioGet(outcome), S_unknown),
     function |-> FunctionGet(ScenarioGet(outcome)),
     line |-> LineGet(ScenarioGet(outcome)),
     summary |-> SummaryGet(outcome, "unknown")]

RECURSIVE SurvivingLoop(_, _, _)
SurvivingLoop(outcomes, i, acc) ==
    IF i > Len(outcomes) THEN acc
    ELSE SurvivingLoop(outcomes, i + 1,
                       IF ~IsDetected(outcomes[i])
                       THEN Append(acc, SurvivingEntry(outcomes[i]))
                       ELSE acc)

analyze_surviving_mutants_raises(data) ==
    \/ IterRaises(data)
    \/ \E i \in DOMAIN OutcomesOf(data) :
          LET o == OutcomesOf(data)[i]
          IN  \/ o.kind # "object"
              \/ ~IsDetected(o) /\ ScenarioGet(o).kind # "object"

analyze_surviving_mutants(data) == SurvivingLoop(OutcomesOf(data), 1, <<>>)

(* ------------------------- threshold evaluation ------------------------ *)
\* variant of ThresholdOf: the per-crate table is not consulted
ThresholdOf_default_only(crate) == OVERALL_THRESHOLD

\* THRESHOLDS.get(crate, OVERALL_THRESHOLD)
ThresholdOf(crate) ==
    IF crate \in DOMAIN THRESHOLDS THEN THRESHOLDS[crate] ELSE OVERALL_THRESHOLD

\* variant of ReportPassed: a score on the threshold does not pass
ReportPassed_strict(score, crate) == score.num > ThresholdOf(crate) * score.den

\* print_report, line 141: passed = score >= threshold
ReportPassed(score, crate) == ScoreGe(score, ThresholdOf(crate))

\* variant of MainFailed: a score on the threshold fails
MainFailed_inclusive(score, crate) == score.num <= ThresholdOf(crate) * score.den

\* main, line 200: the filter of the failed_crates comprehension
MainFailed(score, crate) == ScoreLt(score, ThresholdOf(crate))

\* print_report, lines 136-148: failed crates, in sorted order
RECURSIVE ReportFailedLoop(_, _, _, _)
ReportFailedLoop(scores, order, i, acc) ==
    IF i > Len(order) THEN acc
    ELSE ReportFailedLoop(scores, order, i + 1,
                          IF ~ReportPassed(scores[order[i]].score, order[i])
                          THEN Append(acc, order[i]) ELSE acc)

\* the report as far as it carries a decision
print_report(score, caught_count, total_count, scores, surviving_list) ==
    LET failed == ReportFailedLoop(scores, Sorted(DOMAIN scores), 1, <<>>)
        n == Len(surviving_list)
        ok == ScoreGe(score, OVERALL_THRESHOLD) /\ failed = <<>>
    IN  [emitted |-> TRUE,
         caught |-> caught_count,
         total |-> total_count,
         status |-> IF ScoreGe(score, OVERALL_THRESHOLD) THEN "PASS" ELSE "FAIL",
         crates |-> Sorted(DOMAIN scores),
         failed_crates |-> failed,
         shown |-> IF n > 10 THEN 10 ELSE n,
         more |-> IF n > 10 THEN n - 10 ELSE 0,
         banner |-> IF ok THEN "PASSED" ELSE "FAILED",
         lists_failed |-> ~ok /\ failed # <<>>,
         lists_overall |-> ~ok /\ ScoreLt(score, OVERALL_THRESHOLD)]

NoReport ==
    [emitted |-> FALSE, caught |-> 0, total |-> 0, status |-> "",
     crates |-> <<>>, failed_crates |-> <<>>, shown |-> 0, more |-> 0,
     banner |-> "", lists_failed |-> FALSE, lists_overall |-> FALSE]

\* main, lines 198-201; the list is only tested for emptiness, so its order
\* (the insertion order of the dict) is not kept
FailedCrates(scores) ==
    {crate \in DOMAIN scores : MainFailed(scores[crate].score, crate)}

\* main, lines 203-206
ExitStatus(score, failed) ==
    IF ScoreLt(score, OVERALL_THRESHOLD) \/ failed # {} THEN 1 ELSE 0

(* ============================ state machine ============================ *)
VARIABLES
    argc,            \* len(sys.argv)
    file,            \* what sys.argv[1] names on disk
    pc,              \* position in main()
    assigned,        \* the locals of main() bound so far
    data,
    overall_score,
    caught,
    total,
    crate_scores,
    surviving,
    report,          \* what print_report wrote
    failed_crates,   \* main's own list, lines 198-201
    stdout,          \* messages printed by main() itself
    stderr,          \* the interpreter's traceback of an uncaught exception
    exit_status      \* -1 while the process runs

vars == <<argc, file, pc, assigned, data, overall_score, caught, total,
          crate_scores, surviving, report, failed_crates, stdout, stderr,
          exit_status>>

Init ==
    /\ argc \in {1, 2}
    /\ file \in Files
    \* without the argument the file is never looked at
    /\ argc = 1 => file.doc = Doc(<<>>)
    /\ pc = "main"
    /\ assigned = {}
    /\ data = Doc(<<>>)
    /\ overall_score = ZeroScore
    /\ caught = 0
    /\ total = 0
    /\ crate_scores = <<>>
    /\ surviving = <<>>
    /\ report = NoReport
    /\ failed_crates = {}
    /\ stdout = <<>>
    /\ stderr = <<>>
    /\ exit_status = -1

\* sys.exit(status)
Exit(status) == pc' = "exit" /\ exit_status' = status

\* an exception leaves main(): traceback on stderr, exit status 1
Raise == stderr' = Append(stderr, "Traceback") /\ Exit(1)

\* lines 178-182
CheckArgs ==
    /\ pc = "main"
    /\ IF argc < 2
       THEN stdout' = Append(stdout, "Usage") /\ Exit(1)
       ELSE pc' = "exists" /\ UNCHANGED <<stdout, exit_status>>
    /\ UNCHANGED <<argc, file, assigned, data, overall_score, caught, total,
                   crate_scores, surviving, report, failed_crates, stderr>>

\* lines 184-186
CheckExists ==
    /\ pc = "exists"
    /\ IF file.state = "missing"
       THEN stdout' = Append(stdout, "Error: File not found") /\ Exit(1)
       ELSE pc' = "load" /\ UNCHANGED <<stdout, exit_status>>
    /\ UNCHANGED <<argc, file, assigned, data, overall_score, caught, total,
                   crate_scores, surviving, report, failed_crates, stderr>>

\* variant of Load: the decoding error is swallowed and an empty document
\* is analysed instead
Load_swallow ==
    /\ pc = "load"
    /\ data' = (IF file.state = "malformed" THEN DocNoOutcomes ELSE file.doc)
    /\ assigned' = assigned \cup {"data"}
    /\ pc' = "score"
    /\ UNCHANGED <<argc, file, overall_score, caught, total, crate_scores,
                   surviving, report, failed_crates, stdout, stderr, exit_status>>

\* line 189 and load_mutants_json: json.load raises on text that is not JSON
Load ==
    /\ pc = "load"
    /\ IF file.state = "malformed"
       THEN Raise /\ UNCHANGED <<data, assigned>>
       ELSE /\ data' = file.doc
            /\ assigned' = assigned \cup {"data"}
            /\ pc' = "score"
            /\ UNCHANGED <<stderr, exit_status>>
    /\ UNCHANGED <<argc, file, overall_score, caught, total, crate_scores,
                   surviving, report, failed_crates, stdout>>

\* line 190
CalculateMutationScore ==
    /\ pc = "score"
    /\ IF calculate_mutation_score_raises(data)
       THEN Raise /\ UNCHANGED <<overall_score, caught, total, assigned>>
       ELSE LET r == calculate_mutation_score(data)
            IN  /\ overall_score' = r.score
                /\ caught' = r.caught
                /\ total' = r.total
                /\ assigned' = assigned \cup {"overall_score"}
                /\ pc' = "crates"
                /\ UNCHANGED <<stderr, exit_status>>
    /\ UNCHANGED <<argc, file, data, crate_scores, surviving, report,
                   failed_crates, stdout>>

\* line 191
CalculatePerCrateScores ==
    /\ pc = "crates"
    /\ IF calculate_per_crate_scores_raises(data)
       THEN Raise /\ UNCHANGED <<crate_scores, assigned>>
       ELSE /\ crate_scores' = calculate_per_crate_scores(data)
            /\ assigned' = assigned \cup {"crate_scores"}
            /\ pc' = "surviving"
            /\ UNCHANGED <<stderr, exit_status>>
    /\ UNCHANGED <<argc, file, data, overall_score, caught, total, surviving,
                   report, failed_crates, stdout>>

\* line 192
AnalyzeSurvivingMutants ==
    /\ pc = "surviving"
    /\ IF analyze_surviving_mutants_raises(data)
       THEN Raise /\ UNCHANGED <<surviving, assigned>>
       ELSE /\ surviving' = analyze_surviving_mutants(data)
            /\ assigned' = assigned \cup {"surviving"}
            /\ pc' = "report"
            /\ UNCHANGED <<stderr, exit_status>>
    /\ UNCHANGED <<argc, file, data, overall_score, caught, total,
                   crate_scores, report, failed_crates, stdout>>

\* line 195
PrintReport ==
    /\ pc = "report"
    /\ report' = print_report(overall_score, caught, total, crate_scores, surviving)
    /\ pc' = "verdict"
    /\ UNCHANGED <<argc, file, assigned, data, overall_score, caught, total,
                   crate_scores, surviving, failed_crates, stdout, stderr,
                   exit_status>>

\* lines 198-206
ExitOnThresholds ==
    /\ pc = "verdict"
    /\ failed_crates' = FailedCrates(crate_scores)
    /\ assigned' = assigned \cup {"failed_crates"}
    /\ Exit(ExitStatus(overall_score, FailedCrates(crate_scores)))
    /\ UNCHANGED <<argc, file, data, overall_score, caught, total,
                   crate_scores, surviving, report, stdout, stderr>>

Next ==
    \/ CheckArgs
    \/ CheckExists
    \/ Load
    \/ CalculateMutationScore
    \/ CalculatePerCrateScores
    \/ AnalyzeSurvivingMutants
    \/ PrintReport
    \/ ExitOnThresholds

Spec == Init /\ [][Next]_vars

TypeOK ==
    /\ pc \in {"main", "exists", "load", "score", "crates", "surviving",
               "report", "verdict", "exit"}
    /\ exit_status \in {-1, 0, 1}
    /\ pc = "exit" <=> exit_status # -1

(* =============================== claims ================================ *)
Loaded == "data" \in assigned
Exited == pc = "exit"
RanToVerdict == "failed_crates" \in assigned

\* the effective threshold as the threshold table states it
EffectiveThreshold(m) ==
    CASE m = K_decy_ownership -> 90 [] m = K_decy_lifetime -> 90
      [] m = K_decy_verify -> 85 [] m = K_decy_parser -> 80
      [] m = K_decy_codegen -> 85 [] m = K_decy_analyzer -> 80
      [] m = K_decy_hir -> 80 [] m = K_decy_core -> 85
      [] OTHER -> 85

\* a module's counts put it strictly below its effective threshold
BelowThreshold(m) ==
    crate_scores[m].caught * 100 < EffectiveThreshold(m) * crate_scores[m].total

\* a module's counts put it exactly on its effective threshold
OnThreshold(m) ==
    /\ crate_scores[m].total > 0
    /\ crate_scores[m].caught * 100 = EffectiveThreshold(m) * crate_scores[m].total

\* the status string of a record is `caught` or `timeout`
StatusDetected(o) == "summary" \in o.keys /\ o.summary \in {"caught", "timeout"}

RECURSIVE SumOver(_, _)
SumOver(f, S) ==
    IF S = {} THEN 0
    ELSE LET x == CHOOSE y \in S : TRUE IN f[x] + SumOver(f, S \ {x})

\* C1: a run that loaded its input exits with 0 iff the overall score is at
\* least 85 and no module in the run's results is below its effective
\* threshold, and with 1 otherwise.
C1_ExitIffVerdict ==
    (Exited /\ Loaded) =>
        /\ exit_status \in {0, 1}
        /\ exit_status = 0 <=>
              /\ "overall_score" \in assigned
              /\ overall_score.num >= 85 * overall_score.den
              /\ \A m \in DOMAIN crate_scores : ~BelowThreshold(m)

\* C2: a module of the results is failing iff its score is strictly below
\* its table entry, or below 85 without one; this holds of the list main
\* computes and of the list the report prints; 85/100 passes against 85 and
\* 84/100 fails.
C2_ModuleFailsIffBelow ==
    /\ RanToVerdict =>
          \A m \in DOMAIN crate_scores :
              /\ m \in failed_crates <=> BelowThreshold(m)
              /\ m \in Range(report.failed_crates) <=> BelowThreshold(m)
    /\ ~MainFailed(Percent(85, 100), S_unknown)
    /\ MainFailed(Percent(84, 100), S_unknown)
    /\ ReportPassed(Percent(85, 100), S_unknown)
    /\ ~ReportPassed(Percent(84, 100), S_unknown)

\* C2 witness: decy-parser sits exactly on its own threshold of 80 (below the
\* default 85) and is not failing, while the run reached the verdict
C2_Witness ==
    /\ RanToVerdict
    /\ K_decy_parser \in DOMAIN crate_scores
    /\ OnThreshold(K_decy_parser)
    /\ K_decy_parser \notin failed_crates

\* C3: the per-module detected counts sum to the overall detected count and
\* the per-module totals sum to the overall total.
C3_Partition ==
    "crate_scores" \in assigned =>
        /\ SumOver([m \in DOMAIN crate_scores |-> crate_scores[m].caught],
                   DOMAIN crate_scores) = caught
        /\ SumOver([m \in DOMAIN crate_scores |-> crate_scores[m].total],
                   DOMAIN crate_scores) = total

\* C3 witness: records spread over at least two modules, one of them the
\* module of paths without the marker
C3_Witness ==
    /\ "crate_scores" \in assigned
    /\ Cardinality(DOMAIN crate_scores) >= 2
    /\ S_unknown \in DOMAIN crate_scores
    /\ total = 3

\* the top level is an object whose outcomes are a list of objects
TopLevelWellFormed(d) ==
    /\ d.kind = "object"
    /\ "outcomes" \in d.keys => d.outcomes_kind = "list"
    /\ \A i \in DOMAIN OutcomesOf(d) : OutcomesOf(d)[i].kind = "object"

\* C4: once the top level is parsed, no anomaly in a field of a record
\* aborts the run: the report is emitted and the exit status is the verdict's.
C4_RecordAnomaliesAbsorbed ==
    (Exited /\ Loaded /\ TopLevelWellFormed(data)) =>
        /\ stderr = <<>>
        /\ report.emitted
        /\ RanToVerdict

\* the component after the first path segment `crates`, "unknown" without one
SegmentModule(path) ==
    LET segs == Split(path, S_slash)
        at == {k \in 1..(Len(segs) - 1) : segs[k] = S_crates}
    IN  IF at = {} THEN S_unknown
        ELSE segs[(CHOOSE k \in at : \A j \in at : k <= j) + 1]

\* C5: the module of a record is the path component that follows the path
\* segment `crates`, and "unknown" when no such segment is in the path.
C5_ModuleIsSegmentAfterMarker ==
    "crate_scores" \in assigned =>
        LET outcomes == OutcomesOf(data)
            module(i) == SegmentModule(FileGet(ScenarioGet(outcomes[i]), S_empty).path)
        IN  /\ DOMAIN crate_scores = {module(i) : i \in DOMAIN outcomes}
            /\ \A m \in DOMAIN crate_scores :
                  crate_scores[m].total =
                      Cardinality({i \in DOMAIN outcomes : module(i) = m})

\* C6: a missing or unparseable input file ends the run with status 1 and
\* an error message, and no report is emitted at any point of such a run;
\* a report is only ever emitted after a successful load.
C6_LoadFailure ==
    /\ report.emitted => Loaded
    /\ (argc >= 2 /\ file.state \in {"missing", "malformed"}) =>
          /\ ~report.emitted
          /\ ~Loaded
          /\ Exited =>
                /\ exit_status = 1
                /\ file.state = "missing" => stdout = <<"Error: File not found">>
                /\ file.state = "malformed" => stderr = <<"Traceback">>

\* C6 witness: the run on an unparseable file has ended
C6_Witness ==
    /\ Exited
    /\ argc = 2
    /\ file.state = "malformed"
    /\ exit_status = 1

\* C7: an empty or absent outcomes collection gives score 0, detected 0,
\* total 0, no modules, an emitted report and exit status 1.
C7_EmptyInput ==
    (Exited /\ Loaded /\ TopLevelWellFormed(data) /\ OutcomesOf(data) = <<>>) =>
        /\ stderr = <<>>
        /\ overall_score.num = 0
        /\ caught = 0
        /\ total = 0
        /\ DOMAIN crate_scores = {}
        /\ report.emitted
        /\ report.banner = "FAILED"
        /\ exit_status = 1

\* C7 witness: the run on a document without an outcomes field has ended
C7_Witness ==
    /\ Exited
    /\ Loaded
    /\ data = DocNoOutcomes
    /\ report.emitted

\* C8: a record is counted as detected, overall and in its module, iff its
\* status is `caught` or `timeout`; every other record is counted in the
\* totals only, and those records are exactly the surviving list.
C8_DetectedIffCaughtOrTimeout ==
    "surviving" \in assigned =>
        LET outcomes == OutcomesOf(data)
            det == {i \in DOMAIN outcomes : StatusDetected(outcomes[i])}
            undetected == SelectSeq(outcomes, LAMBDA o : ~StatusDetected(o))
        IN  /\ total = Len(outcomes)
            /\ caught = Cardinality(det)
            /\ \A m \in DOMAIN crate_scores :
                  /\ crate_scores[m].total =
                        Cardinality({i \in DOMAIN outcomes : CrateOf(outcomes[i]) = m})
                  /\ crate_scores[m].caught =
                        Cardinality({i \in det : CrateOf(outcomes[i]) = m})
            /\ Len(surviving) = Len(undetected)
            /\ \A k \in DOMAIN surviving :
                  /\ surviving[k].summary =
                        (IF "summary" \in undetected[k].keys
                         THEN undetected[k].summary ELSE "unknown")
                  /\ "scenario" \in undetected[k].keys =>
                        /\ "file" \in undetected[k].scenario.keys =>
                              surviving[k].file = undetected[k].scenario.file
                        /\ "file" \notin undetected[k].scenario.keys =>
                              surviving[k].file = File(S_unknown)
                  /\ "scenario" \notin undetected[k].keys =>
                        surviving[k].file = File(S_unknown)

\* C8 witness: a timeout, an unviable and a record without status in one run
C8_Witness ==
    /\ "surviving" \in assigned
    /\ \E i, j, k \in DOMAIN OutcomesOf(data) :
          /\ OutcomesOf(data)[i].summary = "timeout"
          /\ OutcomesOf(data)[j].summary = "unviable"
          /\ "summary" \notin OutcomesOf(data)[k].keys
    /\ caught = 1
    /\ Len(surviving) = 2

\* counts c of t and a score s satisfy 0 <= c <= t, 0 <= s <= 100 and
\* s = c/t*100, or s = 0 when t = 0
StatsOK(s, c, t) ==
    /\ 0 <= c /\ c <= t
    /\ s.den > 0
    /\ 0 <= s.num /\ s.num <= 100 * s.den
    /\ t > 0 => s.num * t = c * 100 * s.den
    /\ t = 0 => s.num = 0

\* C9: overall and for every module, 0 <= detected <= total, the score is in
\* [0, 100], and it is detected/total*100, or 0 when total is 0.
C9_StatsInRange ==
    /\ "overall_score" \in assigned => StatsOK(overall_score, caught, total)
    /\ "crate_scores" \in assigned =>
          \A m \in DOMAIN crate_scores :
              StatsOK(crate_scores[m].score, crate_scores[m].caught,
                      crate_scores[m].total)

\* C9 witness: a module with some but not all of its records detected
C9_Witness ==
    /\ "crate_scores" \in assigned
    /\ \E m \in DOMAIN crate_scores :
          /\ 0 < crate_scores[m].caught
          /\ crate_scores[m].caught < crate_scores[m].total

\* C10: the banner of the report is PASSED iff the run exits with 0, and
\* the failed crates the report lists are those main computes.
C10_ReportAgreesWithExit ==
    Exited =>
        /\ report.banner = "PASSED" <=> exit_status = 0
        /\ RanToVerdict =>
              /\ Range(report.failed_crates) = failed_crates
              /\ report.lists_failed <=> failed_crates # {}

\* C10 witness: a passing run in which a module sits exactly on its
\* threshold
C10_Witness ==
    /\ Exited
    /\ report.banner = "PASSED"
    /\ exit_status = 0
    /\ \E m \in DOMAIN crate_scores : OnThreshold(m)

====
